---- MODULE Spec2Model ----
(***************************************************************************)
(* Model of github.com/emar-kar/copy/v2: Copy, copyTree, copyFile and      *)
(* copyBytes, the option functions, utils.ResolvePath and the contextio    *)
(* reader and writer, over a small POSIX filesystem.                       *)
(*                                                                         *)
(* A path is a sequence of one-character strings.  The filesystem maps the *)
(* clean absolute path of every entry to its node.  No modelled filesystem *)
(* has hard links, so the (device, inode) identity that os.SameFile        *)
(* compares is the resolved path of the node.  Paths never hold "." or     *)
(* ".." elements.                                                          *)
(***************************************************************************)
EXTENDS Integers, Sequences, FiniteSets, TLC

VARIABLES
    fs,         \* the filesystem: clean absolute path -> node
    priv,       \* the process has CAP_DAC_OVERRIDE (runs as root)
    umask,      \* the process file-mode creation mask
    src,        \* Copy's src argument
    dst,        \* Copy's dst argument
    optList,    \* Copy's opts argument: a sequence of option records
    ctxDone,    \* ctx.Err() != nil
    pc,         \* "start", "walk", "read", "write", "done"
    err,        \* what Copy returned ("none" while it runs)
    walkSrc,    \* copyTree's src (resolved source root)
    walkDst,    \* copyTree's dst (effective destination root)
    todo,       \* filepath.Walk: the paths still to visit, in visit order
    inTree,     \* the running copyFile was called by copyTree
    rdPath,     \* copyFile: resolved path of the open source file
    wrPath,     \* copyFile: resolved path of the open destination file
    off,        \* read offset into the source file
    buf,        \* copyBytes: buf[:b] after the last Read
    rdErr,      \* copyBytes: the error of the last Read ("nil" or "EOF")
    calls,      \* number of Copy calls started
    fs0,        \* history: the filesystem when the current call started
    fsPrev,     \* history: the filesystem when the previous call returned
    errPrev,    \* history: what the previous call returned
    made,       \* history: paths this call created or truncated
    finished,   \* history: destination files this call copied completely
    cutAt,      \* history: destination file in flight when ctx was cancelled
    xdev,       \* os.Rename fails with EXDEV: src and dst are on two devices
    sum         \* the bytes written to the hash.Hash given to WithHash

vars == <<fs, priv, umask, src, dst, optList, ctxDone, pc, err, walkSrc,
          walkDst, todo, inTree, rdPath, wrPath, off, buf, rdErr, calls,
          fs0, fsPrev, errPrev, made, finished, cutAt, xdev, sum>>

(***************************************************************************)
(* Bounds of the model.                                                    *)
(***************************************************************************)
MaxCalls == 2       \* Copy calls per behaviour
MaxLen == 3         \* longest file content in the byte-stream specification
MaxPathLen == 30    \* PATH_MAX: a longer path fails with ENAMETOOLONG

(***************************************************************************)
(* Strings.                                                                *)
(***************************************************************************)
Alphabet == <<".", "/", "a", "b", "d", "g", "h", "i", "l", "n", "o", "s", "t">>

Rank(c) == CHOOSE i \in 1..Len(Alphabet) : Alphabet[i] = c

\* byte-wise string order, as sort.Strings orders directory names
RECURSIVE StrLess(_, _)
StrLess(a, b) ==
    IF b = <<>> THEN FALSE
    ELSE IF a = <<>> THEN TRUE
    ELSE IF a[1] = b[1] THEN StrLess(Tail(a), Tail(b))
    ELSE Rank(a[1]) < Rank(b[1])

HasPrefix(s, p) == Len(s) >= Len(p) /\ SubSeq(s, 1, Len(p)) = p

\* s with a leading old replaced by new
ReplacePrefix(s, old, new) ==
    IF HasPrefix(s, old) THEN new \o SubSeq(s, Len(old) + 1, Len(s)) ELSE s

\* strings.ReplaceAll(s, old, new) for a non-empty old
RECURSIVE ReplaceAll(_, _, _)
ReplaceAll(s, old, new) ==
    IF Len(s) < Len(old) THEN s
    ELSE IF SubSeq(s, 1, Len(old)) = old
         THEN new \o ReplaceAll(SubSeq(s, Len(old) + 1, Len(s)), old, new)
         ELSE <<s[1]>> \o ReplaceAll(Tail(s), old, new)

(***************************************************************************)
(* Package path.                                                           *)
(***************************************************************************)
Root == <<"/">>

LastSlash(p) ==
    LET S == {i \in 1..Len(p) : p[i] = "/"}
    IN  IF S = {} THEN 0 ELSE CHOOSE i \in S : \A j \in S : j <= i

RECURSIVE Squeeze(_)
Squeeze(p) ==
    IF Len(p) < 2 THEN p
    ELSE IF p[1] = "/" /\ p[2] = "/" THEN Squeeze(Tail(p))
    ELSE <<p[1]>> \o Squeeze(Tail(p))

RECURSIVE TrimSlashes(_)
TrimSlashes(p) ==
    IF Len(p) > 0 /\ p[Len(p)] = "/" THEN TrimSlashes(SubSeq(p, 1, Len(p) - 1))
    ELSE p

\* path.Clean on paths without "." and ".." elements
Clean(p) ==
    IF p = <<>> THEN <<".">>
    ELSE LET q == TrimSlashes(Squeeze(p))
         IN  IF q = <<>> THEN Root ELSE q

\* path.Split: dir ends with the final slash, file follows it
Split(p) ==
    LET i == LastSlash(p)
    IN  [dir |-> SubSeq(p, 1, i), file |-> SubSeq(p, i + 1, Len(p))]

Base(p) ==
    IF p = <<>> THEN <<".">>
    ELSE LET q == TrimSlashes(p)
             r == SubSeq(q, LastSlash(q) + 1, Len(q))
         IN  IF r = <<>> THEN Root ELSE r

Dir(p) == Clean(Split(p).dir)

Join(a, b) ==
    IF a = <<>> /\ b = <<>> THEN <<>>
    ELSE IF a = <<>> THEN Clean(b)
    ELSE Clean(a \o <<"/">> \o b)

\* the non-empty elements of a path
RECURSIVE Components(_)
Components(p) ==
    IF p = <<>> THEN <<>>
    ELSE IF p[1] = "/" THEN Components(Tail(p))
    ELSE LET S == {i \in 1..Len(p) : p[i] = "/"}
             n == IF S = {} THEN Len(p) ELSE (CHOOSE i \in S : \A j \in S : i <= j) - 1
         IN  <<SubSeq(p, 1, n)>> \o Components(SubSeq(p, n + 1, Len(p)))

IsUnder(p, d) == p = d \/ HasPrefix(p, IF d = Root THEN d ELSE d \o <<"/">>)

(***************************************************************************)
(* The filesystem and package os.  Every operation takes the filesystem f, *)
(* the privilege pv and, where it creates, the mask um, and yields a       *)
(* record with the errno ("nil" for success) and the new filesystem.       *)
(* Mode bits are names: "ur" is owner-read, "gx" group-execute, and so on; *)
(* the process owns every entry, so only owner bits are checked.           *)
(***************************************************************************)
Cwd == Root     \* the working directory of the process

AllBits == {"ur", "uw", "ux", "gr", "gw", "gx", "or", "ow", "ox"}
M755 == AllBits \ {"gw", "ow"}
M644 == {"ur", "uw", "gr", "or"}
M666 == {"ur", "uw", "gr", "gw", "or", "ow"}
Umask022 == {"gw", "ow"}

FileNode(m, d) == [kind |-> "file", mode |-> m, data |-> d, target |-> <<>>]
DirNode(m) == [kind |-> "dir", mode |-> m, data |-> <<>>, target |-> <<>>]
LinkNode(t) == [kind |-> "link", mode |-> AllBits, data |-> <<>>, target |-> t]

MaySearch(pv, n) == pv \/ "ux" \in n.mode
MayWrite(pv, n) == pv \/ "uw" \in n.mode
MayRead(pv, n) == pv \/ "ur" \in n.mode

Fail(e, f) == [err |-> e, fs |-> f, path |-> <<>>]
Ok(f, p) == [err |-> "nil", fs |-> f, path |-> p]

\* kernel path walk from directory cur along names; follow tells whether a
\* symbolic link in the last element is followed
RECURSIVE Namei(_, _, _, _, _)
NameiLink(f, pv, t, names, follow) ==
    IF t.err # "nil" THEN t ELSE Namei(f, pv, t.path, names, follow)

NameiStep(f, pv, nxt, names, follow) ==
    IF nxt \notin DOMAIN f THEN Fail("ENOENT", f)
    ELSE IF f[nxt].kind = "link" /\ (Len(names) > 1 \/ follow)
    THEN NameiLink(f, pv, Namei(f, pv, Root, Components(f[nxt].target), TRUE),
                   Tail(names), follow)
    ELSE Namei(f, pv, nxt, Tail(names), follow)

Namei(f, pv, cur, names, follow) ==
    IF names = <<>> THEN Ok(f, cur)
    ELSE IF f[cur].kind # "dir" THEN Fail("ENOTDIR", f)
    ELSE IF ~MaySearch(pv, f[cur]) THEN Fail("EACCES", f)
    ELSE NameiStep(f, pv, Join(cur, Head(names)), names, follow)

\* a path with a trailing slash names a directory
LookupEnd(f, r, slash) ==
    IF r.err = "nil" /\ slash /\ f[r.path].kind # "dir" THEN Fail("ENOTDIR", f) ELSE r

Lookup(f, pv, p, follow) ==
    IF p = <<>> THEN Fail("ENOENT", f)
    ELSE IF Len(p) > MaxPathLen THEN Fail("ENAMETOOLONG", f)
    ELSE LookupEnd(f, Namei(f, pv, IF p[1] = "/" THEN Root ELSE Cwd, Components(p),
                            follow \/ p[Len(p)] = "/"),
                   p[Len(p)] = "/")

\* os.Stat and os.Lstat: path is the resolved path of the node found
Stat(f, pv, p) == Lookup(f, pv, p, TRUE)
Lstat(f, pv, p) == Lookup(f, pv, p, FALSE)

\* the directory an entry named by p is created in or removed from
ParentOf(f, pv, p) ==
    IF p = <<>> THEN Fail("ENOENT", f)
    ELSE IF Len(p) > MaxPathLen THEN Fail("ENAMETOOLONG", f)
    ELSE IF Split(TrimSlashes(p)).dir = <<>> THEN Ok(f, Cwd)
    ELSE Lookup(f, pv, Split(TrimSlashes(p)).dir, TRUE)

\* a new entry key with the given node in the resolved parent par
Create(f, pv, par, key, node) ==
    IF ~MaySearch(pv, f[par]) THEN Fail("EACCES", f)
    ELSE IF key \in DOMAIN f THEN Fail("EEXIST", f)
    ELSE IF ~MayWrite(pv, f[par]) THEN Fail("EACCES", f)
    ELSE Ok((key :> node) @@ f, key)

\* the entry named name is created in the directory ParentOf found
CreateIn(f, pv, par, name, node) ==
    IF par.err # "nil" THEN Fail(par.err, f)
    ELSE Create(f, pv, par.path, Join(par.path, name), node)

\* os.Mkdir: the new directory gets perm masked by the umask
Mkdir(f, pv, um, p, perm) ==
    CreateIn(f, pv, ParentOf(f, pv, p), Base(p), DirNode(perm \ um))

\* os.MkdirAll
RECURSIVE MkdirAll(_, _, _, _, _)
\* Mkdir failed: the error stands unless the path is a directory by now
MkdirAllEnd(g, mk, ls) ==
    IF mk.err = "nil" THEN mk
    ELSE IF ls.err = "nil" /\ g[ls.path].kind = "dir" THEN Ok(g, ls.path)
    ELSE Fail(mk.err, g)

MkdirAllSelf(up, pv, um, p, perm) ==
    IF up.err # "nil" THEN up
    ELSE MkdirAllEnd(up.fs, Mkdir(up.fs, pv, um, p, perm), Lstat(up.fs, pv, p))

\* the slow path: the parent first, then the path itself
MkdirAllParent(f, pv, um, p, perm, parent) ==
    MkdirAllSelf(IF parent # <<>> THEN MkdirAll(f, pv, um, parent, perm) ELSE Ok(f, <<>>),
                 pv, um, p, perm)

MkdirAllStat(f, pv, um, p, perm, st) ==
    IF st.err = "nil"
    THEN IF f[st.path].kind = "dir" THEN Ok(f, st.path) ELSE Fail("ENOTDIR", f)
    ELSE MkdirAllParent(f, pv, um, p, perm,
                        SubSeq(TrimSlashes(p), 1, LastSlash(TrimSlashes(p)) - 1))

MkdirAll(f, pv, um, p, perm) == MkdirAllStat(f, pv, um, p, perm, Stat(f, pv, p))

\* the entries RemoveAll takes away: key and everything below it.  An
\* unprivileged process needs full permission on every non-empty directory
\* among them; no reachable filesystem has a non-empty directory without it,
\* so the partial removal Go performs before reporting the error is left out.
RemoveTree(f, pv, gone, key) ==
    IF ~pv /\ \E k \in gone : /\ f[k].kind = "dir"
                              /\ \E c \in gone : c # k /\ IsUnder(c, k)
                              /\ ~({"ur", "uw", "ux"} \subseteq f[k].mode)
    THEN Fail("EACCES", f)
    ELSE Ok([k \in DOMAIN f \ gone |-> f[k]], key)

RemoveEntry(f, pv, par, key) ==
    IF ~MaySearch(pv, f[par]) THEN Fail("EACCES", f)
    ELSE IF key \notin DOMAIN f THEN Ok(f, <<>>)
    ELSE IF ~MayWrite(pv, f[par]) THEN Fail("EACCES", f)
    ELSE RemoveTree(f, pv, {k \in DOMAIN f : IsUnder(k, key)}, key)

RemoveIn(f, pv, par, name) ==
    IF par.err = "ENOENT" THEN Ok(f, <<>>)
    ELSE IF par.err # "nil" THEN Fail(par.err, f)
    ELSE RemoveEntry(f, pv, par.path, Join(par.path, name))

\* os.RemoveAll: a path that does not exist is no error
RemoveAll(f, pv, p) ==
    IF p = <<>> THEN Ok(f, <<>>) ELSE RemoveIn(f, pv, ParentOf(f, pv, p), Base(p))

OpenStat(f, pv, st) ==
    IF st.err # "nil" THEN st
    ELSE IF ~MayRead(pv, f[st.path]) THEN Fail("EACCES", f)
    ELSE st

\* os.Open for reading
Open(f, pv, p) == OpenStat(f, pv, Stat(f, pv, p))

OpenFileStat(f, pv, um, p, perm, st) ==
    IF st.err = "nil"
    THEN IF f[st.path].kind = "dir" THEN Fail("EISDIR", f)
         ELSE IF ~(MayRead(pv, f[st.path]) /\ MayWrite(pv, f[st.path]))
         THEN Fail("EACCES", f)
         ELSE Ok([f EXCEPT ![st.path].data = <<>>], st.path)
    ELSE IF st.err # "ENOENT" THEN Fail(st.err, f)
    ELSE CreateIn(f, pv, ParentOf(f, pv, p), Base(p), FileNode(perm \ um, <<>>))

\* os.OpenFile(p, O_RDWR|O_CREATE|O_TRUNC, perm): an existing file is
\* truncated and keeps its mode; a new one gets perm masked by the umask.
\* No modelled filesystem has a dangling link at p.
OpenFile(f, pv, um, p, perm) == OpenFileStat(f, pv, um, p, perm, Stat(f, pv, p))

\* os.Symlink(old, new)
Symlink(f, pv, old, new) ==
    CreateIn(f, pv, ParentOf(f, pv, new), Base(new), LinkNode(old))

\* os.SameFile on the results of two Stat calls (a failed Stat gives nil)
SameFile(a, b) == a.err = "nil" /\ b.err = "nil" /\ a.path = b.path

RemoveOne(f, pv, par, key) ==
    IF ~MaySearch(pv, f[par]) THEN Fail("EACCES", f)
    ELSE IF key \notin DOMAIN f THEN Fail("ENOENT", f)
    ELSE IF ~MayWrite(pv, f[par]) THEN Fail("EACCES", f)
    ELSE IF \E c \in DOMAIN f : c # key /\ IsUnder(c, key) THEN Fail("ENOTEMPTY", f)
    ELSE Ok([k \in DOMAIN f \ {key} |-> f[k]], key)

RemoveFrom(f, pv, par, name) ==
    IF par.err # "nil" THEN Fail(par.err, f)
    ELSE RemoveOne(f, pv, par.path, Join(par.path, name))

\* os.Remove: unlink of a file or link, rmdir of an empty directory
Remove(f, pv, p) == RemoveFrom(f, pv, ParentOf(f, pv, p), Base(p))

\* the filesystem with the subtree at old moved to new
Moved(f, old, new) ==
    [k \in {ReplacePrefix(c, old, new) : c \in {c \in DOMAIN f : IsUnder(c, old)}}
          \cup {c \in DOMAIN f : ~IsUnder(c, old) /\ c # new} |->
        IF IsUnder(k, new) /\ \E c \in DOMAIN f : IsUnder(c, old) /\ ReplacePrefix(c, old, new) = k
        THEN f[CHOOSE c \in DOMAIN f : IsUnder(c, old) /\ ReplacePrefix(c, old, new) = k]
        ELSE f[k]]

\* rename(2) of the entry old to the name new in their resolved parents
RenameKeys(f, pv, xd, opar, old, npar, new, slash) ==
    IF ~(MaySearch(pv, f[opar]) /\ MaySearch(pv, f[npar])) THEN Fail("EACCES", f)
    ELSE IF old \notin DOMAIN f THEN Fail("ENOENT", f)
    ELSE IF slash /\ f[old].kind # "dir" THEN Fail("ENOTDIR", f)
    ELSE IF xd THEN Fail("EXDEV", f)
    ELSE IF new = old THEN Ok(f, new)
    ELSE IF IsUnder(new, old) THEN Fail("EINVAL", f)
    ELSE IF ~(MayWrite(pv, f[opar]) /\ MayWrite(pv, f[npar])) THEN Fail("EACCES", f)
    ELSE IF new \in DOMAIN f /\ f[old].kind = "dir" THEN Fail("ENOTDIR", f)
    ELSE Ok(Moved(f, old, new), new)

RenameIn(f, pv, xd, opar, oname, npar, nname, slash) ==
    IF opar.err # "nil" THEN Fail(opar.err, f)
    ELSE IF npar.err # "nil" THEN Fail(npar.err, f)
    ELSE RenameKeys(f, pv, xd, opar.path, Join(opar.path, oname),
                    npar.path, Join(npar.path, nname), slash)

\* os.Rename refuses an existing directory as the new name before the call
RenameStat(f, pv, xd, old, new, fi, ofi) ==
    IF fi.err = "nil" /\ f[fi.path].kind = "dir" /\ ofi.err # "nil" THEN Fail(ofi.err, f)
    ELSE IF fi.err = "nil" /\ f[fi.path].kind = "dir" /\ (new = old \/ ~SameFile(fi, ofi))
    THEN Fail("EEXIST", f)
    ELSE RenameIn(f, pv, xd, ParentOf(f, pv, old), Base(old), ParentOf(f, pv, new),
                  Base(new), new[Len(new)] = "/")

\* os.Rename(old, new) for non-empty names
Rename(f, pv, xd, old, new) ==
    RenameStat(f, pv, xd, old, new, Lstat(f, pv, new), Lstat(f, pv, old))

\* filepath.Abs
Abs(p) == IF p # <<>> /\ p[1] = "/" THEN Clean(p) ELSE Join(Cwd, p)

Resolved(e, p, l) == [err |-> e, path |-> p, link |-> l]

\* filepath.EvalSymlinks on a link, then filepath.Abs
ResolveLink(ev) ==
    IF ev.err # "nil" THEN Resolved(ev.err, <<>>, TRUE)
    ELSE Resolved("nil", Abs(ev.path), TRUE)

ResolveInfo(f, pv, p, info) ==
    IF info.err # "nil" THEN Resolved(info.err, <<>>, FALSE)
    ELSE IF f[info.path].kind # "link" THEN Resolved("nil", Abs(p), FALSE)
    ELSE ResolveLink(Lookup(f, pv, p, TRUE))

\* utils.ResolvePath: (path, isLink, err)
ResolvePath(f, pv, p) == ResolveInfo(f, pv, p, Lstat(f, pv, p))

(***************************************************************************)
(* Options.  An option is a record; an exclude function is the set of the  *)
(* paths it returns true for.                                              *)
(***************************************************************************)
defaultBufSize == 65536

Force == [op |-> "Force", size |-> 0, fn |-> {}]
WithNoFollow == [op |-> "WithNoFollow", size |-> 0, fn |-> {}]
WithBufferSize(i) == [op |-> "WithBufferSize", size |-> i, fn |-> {}]
WithExcludeFunc(x) == [op |-> "WithExcludeFunc", size |-> 0, fn |-> x]

defaultOptions ==
    [excludeFunc |-> {}, bufSize |-> defaultBufSize, force |-> FALSE, noFollow |-> FALSE]

\* fn(opt) for one option function
Apply(o, f) ==
    CASE f.op = "Force" -> [o EXCEPT !.force = TRUE]
      [] f.op = "WithNoFollow" -> [o EXCEPT !.noFollow = TRUE]
      [] f.op = "WithBufferSize" -> IF f.size <= 0 THEN o ELSE [o EXCEPT !.bufSize = f.size]
      [] f.op = "WithExcludeFunc" -> [o EXCEPT !.excludeFunc = f.fn]

RECURSIVE ApplyAll(_, _)
ApplyAll(o, list) ==
    IF list = <<>> THEN o ELSE ApplyAll(Apply(o, Head(list)), Tail(list))

\* opt after Copy's option loop
Options(list) == ApplyAll(defaultOptions, list)

opt == Options(optList)

(***************************************************************************)
(* Copy up to the call of copyTree or copyFile.                            *)
(***************************************************************************)
\* DstCheck with the Force removal before the same-file check
DstCheckRemoveFirst(f, pv, srcInfo, d, force) ==
    LET dstInfo == Stat(f, pv, d)
    IN  IF dstInfo.err = "ENOENT" THEN Ok(f, <<>>)
        ELSE IF force THEN RemoveAll(f, pv, d)
        ELSE IF SameFile(srcInfo, dstInfo) THEN Fail("ErrSame", f)
        ELSE Fail("ErrExist", f)

\* DstCheck that removes an existing destination whether or not Force is set
DstCheckAlwaysRemove(f, pv, srcInfo, d, force) ==
    LET dstInfo == Stat(f, pv, d)
    IN  IF dstInfo.err = "ENOENT" THEN Ok(f, <<>>)
        ELSE IF SameFile(srcInfo, dstInfo) THEN Fail("ErrSame", f)
        ELSE RemoveAll(f, pv, d)

\* DstCheck that with Force keeps the existing destination and writes over it
DstCheckNoRemove(f, pv, srcInfo, d, force) ==
    LET dstInfo == Stat(f, pv, d)
    IN  IF dstInfo.err = "ENOENT" THEN Ok(f, <<>>)
        ELSE IF SameFile(srcInfo, dstInfo) THEN Fail("ErrSame", f)
        ELSE IF ~force THEN Fail("ErrExist", f)
        ELSE Ok(f, <<>>)

\* the destination check: ErrSame, then fs.ErrExist, then the Force removal
DstCheck(f, pv, srcInfo, d, force) ==
    LET dstInfo == Stat(f, pv, d)
    IN  IF dstInfo.err = "ENOENT" THEN Ok(f, <<>>)
        ELSE IF SameFile(srcInfo, dstInfo) THEN Fail("ErrSame", f)
        ELSE IF ~force THEN Fail("ErrExist", f)
        ELSE RemoveAll(f, pv, d)

\* dst after the base name of the source is appended to a directory-style dst
EffectiveDst(d, s) ==
    IF Split(d).file = <<>> THEN Join(Split(d).dir, Base(s)) ELSE d

\* what Copy's body hands on: next is "return", "tree" or "file"; cleared is
\* the filesystem after the destination check
Return(e, f, cleared) ==
    [next |-> "return", err |-> e, fs |-> f, cleared |-> cleared, src |-> <<>>, dst |-> <<>>]

ReturnOf(r, cleared) == Return(r.err, r.fs, cleared)

\* the dispatch on link, directory and file
CopyDispatch(f, pv, cleared, isDir, r, d, o) ==
    IF r.link /\ o.noFollow THEN ReturnOf(Symlink(f, pv, r.path, d), cleared)
    ELSE [next |-> IF isDir THEN "tree" ELSE "file", err |-> "nil", fs |-> f,
          cleared |-> cleared, src |-> r.path, dst |-> d]

CopyMkdir(mk, pv, cleared, isDir, r, d, o) ==
    IF mk.err # "nil" THEN ReturnOf(mk, cleared)
    ELSE CopyDispatch(mk.fs, pv, cleared, isDir, r, EffectiveDst(d, r.path), o)

CopyChecked(f, chk, pv, um, node, r, d, o) ==
    IF chk.err # "nil" THEN ReturnOf(chk, f)
    ELSE CopyMkdir(MkdirAll(chk.fs, pv, um, Split(d).dir, node.mode), pv, chk.fs,
                   node.kind = "dir", r, d, o)

CopyStat(f, srcInfo, pv, um, r, d, o) ==
    IF srcInfo.err # "nil" THEN Return(srcInfo.err, f, f)
    ELSE CopyChecked(f, DstCheck(f, pv, srcInfo, d, o.force), pv, um, f[srcInfo.path],
                     r, d, o)

CopyResolved(f, r, pv, um, d, o) ==
    IF r.err # "nil" THEN Return(r.err, f, f)
    ELSE IF r.path \in o.excludeFunc THEN Return("nil", f, f)
    ELSE CopyStat(f, Stat(f, pv, r.path), pv, um, r, d, o)

\* Copy's body before the call of copyTree or copyFile
CopyHead(f, pv, um, s, d, o) == CopyResolved(f, ResolvePath(f, pv, s), pv, um, d, o)

Opened(e, f, rd, wr) == [err |-> e, fs |-> f, rd |-> rd, wr |-> wr]

copyFileDst(f, srcF, dstF) ==
    IF dstF.err # "nil" THEN Opened(dstF.err, f, <<>>, <<>>)
    ELSE Opened("nil", dstF.fs, srcF.path, dstF.path)

copyFileSrc(f, pv, um, d, stat, srcF) ==
    IF stat.err # "nil" THEN Opened(stat.err, f, <<>>, <<>>)
    ELSE IF srcF.err # "nil" THEN Opened(srcF.err, f, <<>>, <<>>)
    ELSE copyFileDst(f, srcF, OpenFile(f, pv, um, d, f[stat.path].mode))

\* copyFile up to the call of copyBytes: rd and wr are the open files
copyFile(f, pv, um, s, d) == copyFileSrc(f, pv, um, d, Stat(f, pv, s), Open(f, pv, s))

\* the paths of g that f does not hold with the same node
Changed(f, g) == {k \in DOMAIN g : k \notin DOMAIN f \/ f[k] # g[k]}

(***************************************************************************)
(* copyTree: filepath.Walk and the function it calls for every path.       *)
(***************************************************************************)
Children(f, p) == {k \in DOMAIN f : k # p /\ Dir(k) = p}

\* readDirNames: the entries of a directory in sorted order, as full paths
RECURSIVE Sorted(_)
Sorted(S) ==
    IF S = {} THEN <<>>
    ELSE LET m == CHOOSE x \in S : \A y \in S \ {x} : StrLess(x, y)
         IN  <<m>> \o Sorted(S \ {m})

Ret(e, f, sub) == [err |-> e, fs |-> f, stream |-> FALSE, rd |-> <<>>, wr |-> <<>>, subDst |-> sub]

RetOf(r, sub) == Ret(r.err, r.fs, sub)

fnStream(cf, sub) ==
    [err |-> cf.err, fs |-> cf.fs, stream |-> cf.err = "nil", rd |-> cf.rd, wr |-> cf.wr,
     subDst |-> sub]

\* the default case: the parent directory, then the file
fnFile(mp, pv, um, root, sub) ==
    IF mp.err # "nil" THEN RetOf(mp, sub)
    ELSE fnStream(copyFile(mp.fs, pv, um, root, sub), sub)

\* the switch on link, directory and file
fnSwitch(f, pv, um, root, r, info, sub, o) ==
    IF info.err # "nil" THEN Ret(info.err, f, sub)
    ELSE IF r.link /\ o.noFollow THEN RetOf(Symlink(f, pv, r.path, sub), sub)
    ELSE IF f[info.path].kind = "dir"
    THEN RetOf(MkdirAll(f, pv, um, sub, f[info.path].mode), sub)
    ELSE fnFile(MkdirAll(f, pv, um, Dir(sub), f[info.path].mode), pv, um, root, sub)

fnResolved(f, pv, um, root, lst, r, sub, o) ==
    IF r.err # "nil" THEN Ret(r.err, f, sub)
    ELSE IF r.path \in o.excludeFunc THEN Ret("nil", f, sub)
    ELSE fnSwitch(f, pv, um, root, r, IF r.link THEN Stat(f, pv, r.path) ELSE lst, sub, o)

\* the walk function of copyTree for the path root; lst is Walk's Lstat of
\* root, werr the error Walk hands over, s and d are copyTree's src and dst
copyTreeFn(f, pv, um, root, lst, werr, s, d, o) ==
    IF werr # "nil" THEN Ret(werr, f, ReplaceAll(root, s, d))
    ELSE fnResolved(f, pv, um, root, lst, ResolvePath(f, pv, root), ReplaceAll(root, s, d), o)

(***************************************************************************)
(* copyBytes.                                                              *)
(***************************************************************************)
Min(a, b) == IF a < b THEN a ELSE b

\* what the loop does after src.Read returned (b, e): return the error,
\* return nil, or write buf[:b]
copyBytesNext(b, e) ==
    IF e \notin {"nil", "EOF"} THEN "err"
    ELSE IF b = 0 THEN "nil"
    ELSE "write"

\* reader.Read: the results (n, err) a Read of the source at offset o may give
\* with a buffer of size bytes; short reads and data with io.EOF are allowed
ReaderRead(done, data, o, size) ==
    IF done THEN {<<0, "Canceled">>}
    ELSE IF o >= Len(data) THEN {<<0, "EOF">>}
    ELSE {<<n, "nil">> : n \in 1..Min(size, Len(data) - o)}
         \cup (IF Len(data) - o <= size THEN {<<Len(data) - o, "EOF">>} ELSE {})

(***************************************************************************)
(* Actions.                                                                *)
(***************************************************************************)
args == <<priv, umask, src, dst, optList, xdev, sum>>
hist == <<calls, fs0, fsPrev, errPrev>>

NoStream ==
    /\ rdPath' = <<>> /\ wrPath' = <<>> /\ off' = 0 /\ buf' = <<>> /\ rdErr' = "nil"

\* Copy returns e
Finish(e) ==
    /\ pc' = "done" /\ err' = e
    /\ todo' = <<>> /\ inTree' = FALSE
    /\ NoStream

\* Copy returned before any walk or stream
CopyReturn(h) ==
    /\ fs' = h.fs /\ made' = Changed(h.cleared, h.fs)
    /\ Finish(h.err)
    /\ walkSrc' = <<>> /\ walkDst' = <<>>

\* Copy calls copyTree: filepath.Walk starts at the source root
CopyTree(h) ==
    /\ fs' = h.fs /\ made' = Changed(h.cleared, h.fs)
    /\ pc' = "walk" /\ err' = "none"
    /\ walkSrc' = h.src /\ walkDst' = h.dst
    /\ todo' = <<h.src>> /\ inTree' = TRUE
    /\ NoStream

\* Copy calls copyFile, which opens both files
CopyFile(h, cf) ==
    /\ fs' = cf.fs /\ made' = Changed(h.cleared, cf.fs)
    /\ walkSrc' = <<>> /\ walkDst' = <<>>
    /\ IF cf.err # "nil" THEN Finish(cf.err)
       ELSE /\ pc' = "read" /\ err' = "none"
            /\ todo' = <<>> /\ inTree' = FALSE
            /\ rdPath' = cf.rd /\ wrPath' = cf.wr
            /\ off' = 0 /\ buf' = <<>> /\ rdErr' = "nil"

\* Copy is called: everything up to the first step of a walk or a stream
Copy ==
    /\ pc = "start"
    /\ \E h \in {CopyHead(fs, priv, umask, src, dst, opt)} :
         CASE h.next = "return" -> CopyReturn(h)
           [] h.next = "tree" -> CopyTree(h)
           [] h.next = "file" ->
                \E cf \in {copyFile(h.fs, priv, umask, h.src, h.dst)} : CopyFile(h, cf)
    /\ UNCHANGED <<args, hist, ctxDone, finished, cutAt>>

\* the error filepath.Walk hands to the walk function
WalkErr(f, pv, lst) ==
    IF lst.err # "nil" THEN lst.err
    ELSE IF f[lst.path].kind = "dir" /\ ~MayRead(pv, f[lst.path]) THEN "EACCES"
    ELSE "nil"

\* readDirNames of a directory, before the walk function is called on it
WalkNames(f, lst) ==
    IF lst.err = "nil" /\ f[lst.path].kind = "dir" THEN Sorted(Children(f, lst.path))
    ELSE <<>>

\* the walk goes on with rest after the walk function returned v
WalkOn(v, rest) ==
    /\ fs' = v.fs /\ made' = made \cup Changed(fs, v.fs)
    /\ IF v.err # "nil" THEN Finish(v.err)
       ELSE IF v.stream
       THEN /\ pc' = "read" /\ err' = "none"
            /\ todo' = rest /\ inTree' = TRUE
            /\ rdPath' = v.rd /\ wrPath' = v.wr
            /\ off' = 0 /\ buf' = <<>> /\ rdErr' = "nil"
       ELSE IF rest = <<>> THEN Finish("nil")
       ELSE /\ pc' = "walk" /\ err' = "none"
            /\ todo' = rest /\ inTree' = TRUE
            /\ NoStream

\* filepath.Walk reaches the next path and calls the walk function
WalkFn ==
    /\ pc = "walk" /\ todo # <<>>
    /\ \E lst \in {Lstat(fs, priv, Head(todo))} :
         \E v \in {copyTreeFn(fs, priv, umask, Head(todo), lst, WalkErr(fs, priv, lst),
                              walkSrc, walkDst, opt)} :
           WalkOn(v, WalkNames(fs, lst) \o Tail(todo))
    /\ UNCHANGED <<args, hist, ctxDone, walkSrc, walkDst, finished, cutAt>>

\* copyBytes: one src.Read and the checks that follow it
Read ==
    /\ pc = "read"
    /\ \E res \in ReaderRead(ctxDone, fs[rdPath].data, off, opt.bufSize) :
         LET b == res[1]
             e == res[2]
             v == copyBytesNext(b, e)
         IN  CASE v = "err" -> Finish(e) /\ UNCHANGED finished
               [] v = "nil" ->
                    /\ finished' = finished \cup {wrPath}
                    /\ IF inTree /\ todo # <<>>
                       THEN /\ pc' = "walk" /\ err' = "none"
                            /\ UNCHANGED <<todo, inTree>>
                            /\ NoStream
                       ELSE Finish("nil")
               [] v = "write" ->
                    /\ pc' = "write" /\ err' = "none"
                    /\ buf' = SubSeq(fs[rdPath].data, off + 1, off + b)
                    /\ off' = off + b /\ rdErr' = e
                    /\ UNCHANGED <<todo, inTree, rdPath, wrPath, finished>>
    /\ UNCHANGED <<args, hist, fs, ctxDone, walkSrc, walkDst, made, cutAt>>

\* copyBytes: dst.Write(buf[:b])
Write ==
    /\ pc = "write"
    /\ IF ctxDone
       THEN Finish("Canceled") /\ UNCHANGED fs
       ELSE /\ fs' = [fs EXCEPT ![wrPath].data = @ \o buf]
            /\ pc' = "read" /\ err' = "none"
            /\ buf' = <<>> /\ rdErr' = "nil"
            /\ UNCHANGED <<todo, inTree, rdPath, wrPath, off>>
    /\ UNCHANGED <<args, hist, ctxDone, walkSrc, walkDst, made, finished, cutAt>>

\* the context is cancelled while Copy runs
Cancel ==
    /\ ~ctxDone /\ pc \in {"start", "walk", "read", "write"}
    /\ ctxDone' = TRUE
    /\ cutAt' = IF pc \in {"read", "write"}
                   /\ Len(fs[wrPath].data) < Len(fs[rdPath].data)
                THEN wrPath ELSE cutAt
    /\ UNCHANGED <<args, hist, fs, pc, err, walkSrc, walkDst, todo, inTree,
                   rdPath, wrPath, off, buf, rdErr, made, finished>>

\* Copy is called once more with the same arguments
CopyAgain ==
    /\ pc = "done" /\ calls < MaxCalls /\ ~ctxDone
    /\ pc' = "start" /\ err' = "none"
    /\ calls' = calls + 1
    /\ fs0' = fs /\ fsPrev' = fs /\ errPrev' = err
    /\ made' = {} /\ finished' = {} /\ cutAt' = <<>>
    /\ UNCHANGED <<args, fs, ctxDone, walkSrc, walkDst, todo, inTree,
                   rdPath, wrPath, off, buf, rdErr>>

(***************************************************************************)
(* The filesystems and arguments the behaviours start from.                *)
(***************************************************************************)
pA == <<"/", "a">>
pAab == <<"/", "a", "/", "a", "b">>
pAal == <<"/", "a", "/", "a", "l">>
pAl == <<"/", "a", "/", "l">>
pAs == <<"/", "a", "/", "s">>
pAsg == <<"/", "a", "/", "s", "/", "g">>
pT == <<"/", "t">>
pL == <<"/", "l">>
pD == <<"/", "d">>
pDslash == <<"/", "d", "/">>
pDn == <<"/", "d", "/", "n">>
pDo == <<"/", "d", "/", "o">>
pN == <<"n">>

\* a tree /a with two files, a subdirectory and two links, a file /t and a
\* link /l to it
SourceFS ==
    (Root :> DirNode(M755))
    @@ (pA :> DirNode(M755))
    @@ (pAab :> FileNode(M644, <<"h", "i">>))
    @@ (pAal :> LinkNode(pT))
    @@ (pAl :> LinkNode(pAs))
    @@ (pAs :> DirNode(M755))
    @@ (pAsg :> FileNode(M755, <<"g">>))
    @@ (pT :> FileNode(M644, <<"t">>))
    @@ (pL :> LinkNode(pT))

\* a destination directory /d that holds a file
OldFS == (pD :> DirNode(M755)) @@ (pDo :> FileNode(M644, <<"o">>))

Sources == {pA, pT, pL}
Destinations == {pD, pDslash, pDn, pDo, pN, pT, pA, pL}
Excludes == {{}, {pAs}, {pT}, {pA}}

OptLists ==
    {f \o n \o x : f \in {<<>>, <<Force>>}, n \in {<<>>, <<WithNoFollow>>},
                   x \in {<<>>} \cup {<<WithExcludeFunc(e)>> : e \in Excludes \ {{}}}}

InitCommon ==
    /\ ctxDone = FALSE /\ pc = "start" /\ err = "none"
    /\ walkSrc = <<>> /\ walkDst = <<>> /\ todo = <<>> /\ inTree = FALSE
    /\ rdPath = <<>> /\ wrPath = <<>> /\ off = 0 /\ buf = <<>> /\ rdErr = "nil"
    /\ calls = 1 /\ fs0 = fs /\ fsPrev = fs /\ errPrev = "none"
    /\ made = {} /\ finished = {} /\ cutAt = <<>>
    /\ sum = <<>>

Init ==
    /\ fs \in {SourceFS, OldFS @@ SourceFS}
    /\ priv \in BOOLEAN
    /\ umask = Umask022
    /\ src \in Sources
    /\ dst \in Destinations
    /\ optList \in OptLists
    /\ xdev = FALSE
    /\ InitCommon

Next == Copy \/ WalkFn \/ Read \/ Write \/ Cancel \/ CopyAgain

Spec == Init /\ [][Next]_vars

(***************************************************************************)
(* Copy with a destination that is an ancestor directory of the source or  *)
(* lies inside the source tree.                                            *)
(***************************************************************************)
pAn == <<"/", "a", "/", "n">>
pAsn == <<"/", "a", "/", "s", "/", "n">>

\* a tree /a with a subdirectory that holds an executable file
NestFS ==
    (Root :> DirNode(M755))
    @@ (pA :> DirNode(M755))
    @@ (pAs :> DirNode(M755))
    @@ (pAsg :> FileNode(M755, <<"g">>))

InitNested ==
    /\ fs \in {SourceFS, OldFS @@ SourceFS, NestFS}
    /\ priv \in BOOLEAN
    /\ umask = Umask022
    /\ src \in {pA, pDo}
    /\ dst \in {pD, pDslash, pAn, pAsn}
    /\ optList \in OptLists
    /\ xdev = FALSE
    /\ InitCommon

SpecNested == InitNested /\ [][Next]_vars

(***************************************************************************)
(* The variant of src/copy.go: options ContentOnly, WithMove, RevertOnErr, *)
(* FollowSymlink and WithHash; rename, copy, copyFolder, copyFile and      *)
(* copyBytes.  The hash given to WithHash is the sequence of bytes written *)
(* to it.  The trees it copies hold no symbolic link, so the path the walk *)
(* hands to copyFile is the resolved path of the file it opens.            *)
(***************************************************************************)
defaultBufferSize == 4096

ContentOnly == [op |-> "ContentOnly", size |-> 0, fn |-> {}]
FollowSymlink == [op |-> "FollowSymlink", size |-> 0, fn |-> {}]
WithMove == [op |-> "WithMove", size |-> 0, fn |-> {}]
RevertOnErr == [op |-> "RevertOnErr", size |-> 0, fn |-> {}]
WithHash == [op |-> "WithHash", size |-> 0, fn |-> {}]

defaultOptions1 ==
    [hash |-> FALSE, bufSize |-> defaultBufferSize, force |-> FALSE, contentOnly |-> FALSE,
     move |-> FALSE, revert |-> FALSE, follow |-> FALSE]

\* fn(opt) for one option function of src/options.go
Apply1(o, f) ==
    CASE f.op = "Force" -> [o EXCEPT !.force = TRUE]
      [] f.op = "ContentOnly" -> [o EXCEPT !.contentOnly = TRUE]
      [] f.op = "FollowSymlink" -> [o EXCEPT !.follow = TRUE]
      [] f.op = "WithMove" -> [o EXCEPT !.move = TRUE]
      [] f.op = "WithBufferSize" -> IF f.size <= 0 THEN o ELSE [o EXCEPT !.bufSize = f.size]
      [] f.op = "RevertOnErr" -> [o EXCEPT !.revert = TRUE]
      [] f.op = "WithHash" -> [o EXCEPT !.hash = TRUE]

RECURSIVE ApplyAll1(_, _)
ApplyAll1(o, list) ==
    IF list = <<>> THEN o ELSE ApplyAll1(Apply1(o, Head(list)), Tail(list))

Options1(list) == ApplyAll1(defaultOptions1, list)

opt1 == Options1(optList)

\* resolvePath of src/copy.go: (path, err)
resolvePath(f, pv, p) == ResolveInfo(f, pv, p, Lstat(f, pv, p))

\* what rename hands back: the error, the filesystem and the hash
Renamed(e, f, sm) == [err |-> e, fs |-> f, sum |-> sm]

renameMkdir(mk, pv, xd, s, d, sm) ==
    IF mk.err # "nil" THEN Renamed(mk.err, mk.fs, sm)
    ELSE Renamed(Rename(mk.fs, pv, xd, s, d).err, Rename(mk.fs, pv, xd, s, d).fs, sm)

\* info is that of a directory source, or of the directory of a file source
renameInfo(f, pv, um, xd, s, d, sm, info) ==
    IF info.err # "nil" THEN Renamed(info.err, f, sm)
    ELSE renameMkdir(MkdirAll(f, pv, um, Dir(d), f[info.path].mode), pv, xd, s, d, sm)

\* a file source is read into the hash before it is renamed
renameFile(f, pv, um, xd, s, d, h, sm, srcF) ==
    IF h /\ srcF.err # "nil" THEN Renamed(srcF.err, f, sm)
    ELSE renameInfo(f, pv, um, xd, s, d, IF h THEN sm \o f[srcF.path].data ELSE sm,
                    Stat(f, pv, Dir(s)))

renameStat(f, pv, um, xd, s, d, h, sm, info) ==
    IF info.err # "nil" THEN Renamed(info.err, f, sm)
    ELSE IF f[info.path].kind = "dir" THEN renameInfo(f, pv, um, xd, s, d, sm, info)
    ELSE renameFile(f, pv, um, xd, s, d, h, sm, Open(f, pv, s))

\* rename(src, dst, opt.hash)
rename(f, pv, um, xd, s, d, h, sm) == renameStat(f, pv, um, xd, s, d, h, sm, Stat(f, pv, s))

\* what Copy's body hands on: next is "return", "tree" or "file"
Return1(e, f, sm) ==
    [next |-> "return", err |-> e, fs |-> f, sum |-> sm, src |-> <<>>, dst |-> <<>>]

Call1(next, f, sm, s, d) ==
    [next |-> next, err |-> "nil", fs |-> f, sum |-> sm, src |-> s, dst |-> d]

\* the file is copied when its destination does not exist or Force is set
copyExists(f, s, d, o, sm, st) ==
    IF st.err = "ENOENT" \/ o.force THEN Call1("file", f, sm, s, d) ELSE Return1("nil", f, sm)

copyMkdir(mk, pv, s, d, o, sm) ==
    IF mk.err # "nil" THEN Return1(mk.err, mk.fs, sm)
    ELSE copyExists(mk.fs, s, d, o, sm, Stat(mk.fs, pv, d))

\* the destination directory gets the mode of the source's directory
copyParent(f, pv, um, s, d, o, sm, info) ==
    IF info.err # "nil" THEN Return1(info.err, f, sm)
    ELSE copyMkdir(MkdirAll(f, pv, um, Split(d).dir, f[info.path].mode), pv, s,
                   Join(Split(d).dir, IF Split(d).file = <<>> THEN Base(s) ELSE Split(d).file),
                   o, sm)

\* copyFolder's destination root
copyFolderDst(s, d, o) == IF o.contentOnly THEN d ELSE Join(d, Base(s))

copyStat(f, pv, um, s, d, o, sm, srcInfo) ==
    IF srcInfo.err # "nil" THEN Return1(srcInfo.err, f, sm)
    ELSE IF f[srcInfo.path].kind = "dir" THEN Call1("tree", f, sm, s, copyFolderDst(s, d, o))
    ELSE copyParent(f, pv, um, s, d, o, sm, Stat(f, pv, Dir(s)))

\* copy(ctx, src, dst, opt) up to the call of copyFolder's walk or copyFile
copy(f, pv, um, s, d, o, sm) == copyStat(f, pv, um, s, d, o, sm, Stat(f, pv, s))

\* a successful rename ends Copy with os.RemoveAll(src); a failed one resets
\* the hash and falls back to copy
Copy1Renamed(pv, um, s, d, o, rn) ==
    IF rn.err = "nil"
    THEN Return1(RemoveAll(rn.fs, pv, s).err, RemoveAll(rn.fs, pv, s).fs, rn.sum)
    ELSE copy(rn.fs, pv, um, s, d, o, IF o.hash THEN <<>> ELSE rn.sum)

Copy1Move(f, pv, um, xd, s, d, o, sm) ==
    IF o.move THEN Copy1Renamed(pv, um, s, d, o, rename(f, pv, um, xd, s, d, o.hash, sm))
    ELSE copy(f, pv, um, s, d, o, sm)

Copy1Follow(f, pv, um, xd, r, d, o, sm) ==
    IF r.err # "nil" THEN Return1(r.err, f, sm)
    ELSE Copy1Move(f, pv, um, xd, r.path, d, o, sm)

\* Copy's body before copyFolder's walk or copyFile
Copy1Head(f, pv, um, xd, s, d, o, sm) ==
    IF o.follow THEN Copy1Follow(f, pv, um, xd, resolvePath(f, pv, s), d, o, sm)
    ELSE Copy1Move(f, pv, um, xd, s, d, o, sm)

\* copyFile up to the call of copyBytes
copyFile1(f, pv, um, s, d) == copyFileSrc(f, pv, um, d, Stat(f, pv, s), Open(f, pv, s))

\* a file of the walk is copied when its destination does not exist or Force
\* is set
folderFile(f, pv, um, root, sub, o, st) ==
    IF st.err = "ENOENT" \/ o.force THEN fnStream(copyFile1(f, pv, um, root, sub), sub)
    ELSE Ret("nil", f, sub)

folderNode(f, pv, um, root, node, sub, o, done) ==
    IF node.kind = "dir"
    THEN IF done THEN Ret("Canceled", f, sub) ELSE RetOf(MkdirAll(f, pv, um, sub, node.mode), sub)
    ELSE folderFile(f, pv, um, root, sub, o, Stat(f, pv, sub))

\* the walk function of copyFolder for the path root
copyFolderFn(f, pv, um, root, lst, werr, s, d, o, done) ==
    IF werr # "nil" THEN Ret(werr, f, ReplaceAll(root, s, d))
    ELSE folderNode(f, pv, um, root, f[lst.path], ReplaceAll(root, s, d), o, done)

\* the src of the running copyFile call
copyFileName ==
    IF inTree THEN rdPath
    ELSE IF opt1.follow THEN resolvePath(fs0, priv, src).path
    ELSE src

args1 == <<priv, umask, src, dst, optList, xdev>>

\* a stream starts for the opened files of cf
Stream1(cf, rest, tree) ==
    /\ pc' = "read" /\ err' = "none"
    /\ todo' = rest /\ inTree' = tree
    /\ rdPath' = cf.rd /\ wrPath' = cf.wr
    /\ off' = 0 /\ buf' = <<>> /\ rdErr' = "nil"

\* Copy is called: everything up to the first step of a walk or a stream
Copy1 ==
    /\ pc = "start"
    /\ \E h \in {Copy1Head(fs, priv, umask, xdev, src, dst, opt1, sum)} :
         /\ sum' = h.sum
         /\ CASE h.next = "return" ->
                   /\ fs' = h.fs /\ Finish(h.err)
                   /\ walkSrc' = <<>> /\ walkDst' = <<>>
              [] h.next = "tree" ->
                   /\ fs' = h.fs
                   /\ pc' = "walk" /\ err' = "none"
                   /\ walkSrc' = h.src /\ walkDst' = h.dst
                   /\ todo' = <<h.src>> /\ inTree' = TRUE
                   /\ NoStream
              [] h.next = "file" ->
                   \E cf \in {copyFile1(h.fs, priv, umask, h.src, h.dst)} :
                     /\ fs' = cf.fs
                     /\ walkSrc' = <<>> /\ walkDst' = <<>>
                     /\ IF cf.err # "nil" THEN Finish(cf.err)
                        ELSE Stream1(cf, <<>>, FALSE)
    /\ UNCHANGED <<args1, hist, ctxDone, made, finished, cutAt>>

\* filepath.Walk returned nil: copyFolder removes the source when it moves
WalkEnd1(f) ==
    \E ra \in {IF opt1.move THEN RemoveAll(f, priv, walkSrc) ELSE Ok(f, walkSrc)} :
      fs' = ra.fs /\ Finish(ra.err)

\* the walk goes on with rest after the walk function returned v
WalkOn1(v, rest) ==
    IF v.err # "nil" THEN fs' = v.fs /\ Finish(v.err)
    ELSE IF v.stream THEN fs' = v.fs /\ Stream1(v, rest, TRUE)
    ELSE IF rest = <<>> THEN WalkEnd1(v.fs)
    ELSE /\ fs' = v.fs
         /\ pc' = "walk" /\ err' = "none"
         /\ todo' = rest /\ inTree' = TRUE
         /\ NoStream

\* filepath.Walk reaches the next path and calls copyFolder's walk function
Walk1 ==
    /\ pc = "walk" /\ todo # <<>>
    /\ \E lst \in {Lstat(fs, priv, Head(todo))} :
         \E v \in {copyFolderFn(fs, priv, umask, Head(todo), lst, WalkErr(fs, priv, lst),
                                walkSrc, walkDst, opt1, ctxDone)} :
           WalkOn1(v, WalkNames(fs, lst) \o Tail(todo))
    /\ UNCHANGED <<args1, sum, hist, ctxDone, walkSrc, walkDst, made, finished, cutAt>>

\* copyBytes returned nil: copyFile removes its source when it moves, and the
\* walk, if any, goes on
Copied1(rm) ==
    IF rm.err # "nil" THEN fs' = rm.fs /\ Finish(rm.err)
    ELSE IF inTree /\ todo # <<>>
    THEN /\ fs' = rm.fs
         /\ pc' = "walk" /\ err' = "none"
         /\ UNCHANGED <<todo, inTree>>
         /\ NoStream
    ELSE IF inTree THEN WalkEnd1(rm.fs)
    ELSE fs' = rm.fs /\ Finish("nil")

\* copyBytes returned the error e: copyFile removes the destination when it
\* reverts
Failed1(e) ==
    /\ fs' = IF opt1.revert THEN Remove(fs, priv, wrPath).fs ELSE fs
    /\ Finish(e)

\* copyBytes: one src.Read and the checks that follow it
Read1 ==
    /\ pc = "read"
    /\ \E res \in ReaderRead(ctxDone, fs[rdPath].data, off, opt1.bufSize) :
         \E v \in {copyBytesNext(res[1], res[2])} :
           CASE v = "err" -> Failed1(res[2]) /\ UNCHANGED finished
             [] v = "nil" ->
                  /\ finished' = finished \cup {wrPath}
                  /\ Copied1(IF opt1.move THEN Remove(fs, priv, copyFileName)
                             ELSE Ok(fs, copyFileName))
             [] v = "write" ->
                  /\ pc' = "write" /\ err' = "none"
                  /\ buf' = SubSeq(fs[rdPath].data, off + 1, off + res[1])
                  /\ off' = off + res[1] /\ rdErr' = res[2]
                  /\ UNCHANGED <<fs, todo, inTree, rdPath, wrPath, finished>>
    /\ UNCHANGED <<args1, sum, hist, ctxDone, walkSrc, walkDst, made, cutAt>>

\* copyBytes: dst.Write(buf[:b]) on the writers copyFile and copyBytes chained:
\* the destination file, the hash of copyFile's io.MultiWriter, and the hash
\* copyBytes adds
Write1 ==
    /\ pc = "write"
    /\ IF ctxDone
       THEN Failed1("Canceled") /\ UNCHANGED sum
       ELSE /\ fs' = [fs EXCEPT ![wrPath].data = @ \o buf]
            /\ sum' = IF opt1.hash THEN sum \o buf \o buf ELSE sum
            /\ pc' = "read" /\ err' = "none"
            /\ buf' = <<>> /\ rdErr' = "nil"
            /\ UNCHANGED <<todo, inTree, rdPath, wrPath, off>>
    /\ UNCHANGED <<args1, hist, ctxDone, walkSrc, walkDst, made, finished, cutAt>>

pAb == <<"/", "a", "/", "b">>
pDs == <<"/", "d", "/", "s">>
pDsg == <<"/", "d", "/", "s", "/", "g">>

\* a tree /a with a file and a subdirectory that holds a file, a file /t and
\* a link /l to it
MoveFS ==
    (Root :> DirNode(M755))
    @@ (pA :> DirNode(M755))
    @@ (pAb :> FileNode(M644, <<"h", "i">>))
    @@ (pAs :> DirNode(M755))
    @@ (pAsg :> FileNode(M644, <<"g">>))
    @@ (pT :> FileNode(M644, <<"t">>))
    @@ (pL :> LinkNode(pT))

\* the tree holds one more file, whose name repeats the name of the tree
AbFS == pAab :> FileNode(M644, <<"h", "i">>)

\* a destination directory /d that holds a file, and a subdirectory with a
\* file of the tree's names
OldMoveFS ==
    OldFS @@ (pDs :> DirNode(M755)) @@ (pDsg :> FileNode(M644, <<"x">>))

MoveDestinations == {pD, pDslash, pDn, pDo, pT, pA}

MoveOptLists ==
    {f \o c \o m \o r \o l \o h :
        f \in {<<>>, <<Force>>}, c \in {<<>>, <<ContentOnly>>}, m \in {<<>>, <<WithMove>>},
        r \in {<<>>, <<RevertOnErr>>}, l \in {<<>>, <<FollowSymlink>>},
        h \in {<<>>, <<WithHash>>}}

InitMove ==
    /\ fs \in {MoveFS, AbFS @@ MoveFS, OldMoveFS @@ MoveFS}
    /\ priv = FALSE
    /\ umask = Umask022
    /\ src \in Sources
    /\ dst \in MoveDestinations
    /\ optList \in MoveOptLists
    /\ xdev \in BOOLEAN
    /\ InitCommon

NextMove == Copy1 \/ Walk1 \/ Read1 \/ Write1 \/ Cancel

SpecMove == InitMove /\ [][NextMove]_vars

(***************************************************************************)
(* The byte-stream specification: one regular file /t of every mode and    *)
(* content up to MaxLen bytes is copied to the absent /d/n under every     *)
(* list of up to two buffer-size options and both masks.                   *)
(***************************************************************************)
RECURSIVE Contents(_)
Contents(n) ==
    IF n = 0 THEN {<<>>}
    ELSE Contents(n - 1) \cup {c \o <<b>> : c \in Contents(n - 1), b \in {"h", "i"}}

BufferSizes == {-1, 0, 1, 2}

BufferOptLists ==
    {<<>>} \cup {<<WithBufferSize(i)>> : i \in BufferSizes}
           \cup {<<WithBufferSize(i), WithBufferSize(j)>> : i, j \in BufferSizes}

BytesFS(m, c) == (Root :> DirNode(M755)) @@ (pD :> DirNode(M755)) @@ (pT :> FileNode(m, c))

InitBytes ==
    /\ fs \in {BytesFS(m, c) : m \in {M644, M666, M755}, c \in Contents(MaxLen)}
    /\ priv = FALSE
    /\ umask \in {{}, Umask022}
    /\ src = pT
    /\ dst = pDn
    /\ optList \in BufferOptLists
    /\ xdev = FALSE
    /\ InitCommon

NextBytes == Copy \/ Read \/ Write \/ Cancel

SpecBytes == InitBytes /\ [][NextBytes]_vars

(***************************************************************************)
(* What the properties speak about: the call's arguments as they resolve   *)
(* in fs0, the filesystem the call started from.                           *)
(***************************************************************************)
\* the resolved source of the call
Res == ResolvePath(fs0, priv, src)
\* the exclude predicate matches the resolved top-level source
Excluded == Res.err = "nil" /\ Res.path \in opt.excludeFunc
SrcInfo0 == Stat(fs0, priv, Res.path)
DstInfo0 == Stat(fs0, priv, dst)
\* the destination exists and is the same file as the resolved source
SameAtStart == Res.err = "nil" /\ SameFile(SrcInfo0, DstInfo0)
\* the destination exists and is another file than the source
OtherAtStart == Res.err = "nil" /\ SrcInfo0.err = "nil" /\ DstInfo0.err = "nil"
                /\ ~SameFile(SrcInfo0, DstInfo0)
\* the source entry k of the walk resolves to an excluded path
ExcludedAt(k) ==
    /\ ResolvePath(fs0, priv, k).err = "nil"
    /\ ResolvePath(fs0, priv, k).path \in opt.excludeFunc
\* the destination position of the source entry k: dstRoot/r for k = srcRoot/r
Position(k) == ReplacePrefix(k, walkSrc, walkDst)
\* the entries of the source tree below its root
Inside == {k \in DOMAIN fs0 : k # walkSrc /\ IsUnder(k, walkSrc)}
\* Copy returned nil from a tree copy
TreeCopied == pc = "done" /\ err = "nil" /\ walkSrc # <<>>
\* the key of the destination file or link of a top-level file or link copy
DstKey == Abs(EffectiveDst(dst, Res.path))

(***************************************************************************)
(* C1                                                                      *)
(***************************************************************************)
\* C1 as stated: whenever the destination exists and is the same file as the
\* resolved source, Copy returns ErrSame and no filesystem entry is created,
\* removed or changed, for every option combination.
C1_AlwaysErrSame ==
    pc = "done" /\ SameAtStart => err = "ErrSame" /\ fs = fs0

\* C1 as amended: whenever the destination exists and is the same file as the
\* resolved source, no filesystem entry is created, removed or changed, and
\* Copy returns ErrSame, with or without Force and WithNoFollow, unless the
\* exclude predicate matches the resolved source: then it returns nil.
C1_SameFile ==
    pc = "done" /\ SameAtStart =>
        /\ fs = fs0
        /\ err = IF Excluded THEN "nil" ELSE "ErrSame"

\* Copy with Force returned ErrSame for a directory copied onto itself
C1_Witness ==
    /\ pc = "done" /\ SameAtStart /\ ~Excluded /\ opt.force
    /\ src = pA /\ dst = pA /\ err = "ErrSame" /\ fs = fs0

(***************************************************************************)
(* C2                                                                      *)
(***************************************************************************)
\* C2 as stated: when the destination exists, is not the same file as the
\* source and Force is not set, Copy returns fs.ErrExist and the filesystem
\* is exactly as before the call.
C2_AlwaysErrExist ==
    pc = "done" /\ OtherAtStart /\ ~opt.force => err = "ErrExist" /\ fs = fs0

\* C2 as amended: when the destination exists, is not the same file as the
\* source and Force is not set, the filesystem is exactly as before the call,
\* and Copy returns fs.ErrExist unless the exclude predicate matches the
\* resolved source: then it returns nil.
C2_Exists ==
    pc = "done" /\ OtherAtStart /\ ~opt.force =>
        /\ fs = fs0
        /\ err = IF Excluded THEN "nil" ELSE "ErrExist"

\* Copy without Force returned fs.ErrExist for an existing destination file
\* with other content
C2_Witness ==
    /\ pc = "done" /\ OtherAtStart /\ ~opt.force /\ ~Excluded
    /\ src = pT /\ dst = pDo /\ err = "ErrExist"
    /\ fs[pDo].data = <<"o">>

(***************************************************************************)
(* C3                                                                      *)
(***************************************************************************)
\* C3: for a regular-file source and an absent destination, under every read
\* chunking and every list of buffer-size options, a Copy that returns nil
\* leaves a destination file with the source's bytes and the source's
\* permission bits.
C3_BytesAndMode ==
    pc = "done" /\ err = "nil" /\ fs0[pT].kind = "file" /\ pDn \notin DOMAIN fs0 =>
        /\ pDn \in DOMAIN fs /\ fs[pDn].kind = "file"
        /\ fs[pDn].data = fs0[pT].data
        /\ fs[pDn].mode = fs0[pT].mode

(***************************************************************************)
(* C4                                                                      *)
(***************************************************************************)
\* C4: after a successful tree copy every non-excluded file or directory at
\* srcRoot/r has an entry of its kind at exactly dstRoot/r, also when the
\* source-root string occurs again in r.
C4_SamePosition ==
    TreeCopied =>
        \A k \in Inside :
            fs0[k].kind \in {"file", "dir"} /\ ~ExcludedAt(k) =>
                Position(k) \in DOMAIN fs /\ fs[Position(k)].kind = fs0[k].kind

(***************************************************************************)
(* C5                                                                      *)
(***************************************************************************)
\* C5: with WithNoFollow, after a successful Copy a symlink source, as the
\* top-level source or as a non-excluded entry of the walk, has at its
\* destination position a symlink to the path the source link resolves to,
\* and no file was streamed for it.
C5_LinksRecreated ==
    pc = "done" /\ err = "nil" /\ opt.noFollow =>
        /\ Res.link /\ ~Excluded =>
              /\ DstKey \in DOMAIN fs /\ fs[DstKey].kind = "link"
              /\ fs[DstKey].target = Res.path
              /\ finished = {}
        /\ walkSrc # <<>> =>
              \A k \in Inside :
                  fs0[k].kind = "link" /\ ~ExcludedAt(k) =>
                      /\ Position(k) \in DOMAIN fs /\ fs[Position(k)].kind = "link"
                      /\ fs[Position(k)].target = ResolvePath(fs0, priv, k).path
                      /\ Position(k) \notin finished

(***************************************************************************)
(* C6                                                                      *)
(***************************************************************************)
\* the links of the source tree whose destination position the walk computes
\* as dstRoot/r
PlacedLinks ==
    {k \in Inside : /\ fs0[k].kind = "link" /\ ~ExcludedAt(k)
                    /\ ReplaceAll(k, walkSrc, walkDst) = Position(k)}

\* the subtree of fs0 at t is at p in fs: the same kinds and the same bytes
SubtreeAt(t, p) ==
    \A c \in {k \in DOMAIN fs0 : IsUnder(k, t)} :
        /\ ReplacePrefix(c, t, p) \in DOMAIN fs
        /\ fs0[c].kind # "link" =>
              /\ fs[ReplacePrefix(c, t, p)].kind = fs0[c].kind
              /\ fs[ReplacePrefix(c, t, p)].data = fs0[c].data

\* C6: without WithNoFollow, after a successful tree copy every symlink of the
\* source tree has at its destination position a non-symlink entry with the
\* link target's content: the bytes of a target file, the whole subtree of a
\* target directory.
C6_LinksFollowed ==
    TreeCopied /\ ~opt.noFollow =>
        \A k \in PlacedLinks :
            /\ Position(k) \in DOMAIN fs /\ fs[Position(k)].kind # "link"
            /\ SubtreeAt(Stat(fs0, priv, k).path, Position(k))

(***************************************************************************)
(* C7                                                                      *)
(***************************************************************************)
\* C7: after Copy returns nil no source path that the exclude predicate
\* matches exists at its destination position; an excluded top-level source
\* creates nothing, and an excluded directory does not appear through the
\* copy of a descendant the predicate does not match.
C7_ExcludedAbsent ==
    pc = "done" /\ err = "nil" =>
        /\ Excluded => fs = fs0
        /\ walkSrc # <<>> =>
              \A k \in Inside : ExcludedAt(k) => Position(k) \notin DOMAIN fs

(***************************************************************************)
(* C8                                                                      *)
(***************************************************************************)
\* everything at or below the destination path was made by this call
NoSurvivor == \A k \in DOMAIN fs : IsUnder(k, Abs(dst)) => k \in made

\* a copied top-level file holds the source's bytes
FileCopied ==
    fs0[SrcInfo0.path].kind = "file" /\ ~(Res.link /\ opt.noFollow) =>
        /\ DstKey \in DOMAIN fs /\ fs[DstKey].kind = "file"
        /\ fs[DstKey].data = fs0[SrcInfo0.path].data

\* a second call with the same arguments changes nothing
SecondCallSame == calls > 1 /\ errPrev = "nil" => fs = fsPrev

C9_CancelRemoves ==
    pc = "done" /\ optList = <<>> /\ cutAt # <<>> =>
        /\ cutAt \notin DOMAIN fs
        /\ \A p \in finished : p \in DOMAIN fs /\ fs[p].kind = "file"

(***************************************************************************)
(* C10                                                                     *)
(***************************************************************************)
\* C10: for a file source and an absent destination, Copy creates the missing
\* destination directories and leaves the source's bytes at <destination
\* directory>/<base name of the resolved source> when the destination string
\* ends with a separator, and at the destination as given otherwise.
C10_EffectiveDst ==
    /\ pc = "done" /\ ~ctxDone /\ ~Excluded /\ DstInfo0.err = "ENOENT"
    /\ SrcInfo0.err = "nil" /\ fs0[SrcInfo0.path].kind = "file"
    /\ ~(Res.link /\ opt.noFollow)
    => /\ err = "nil"
       /\ DstKey \in DOMAIN fs /\ fs[DstKey].kind = "file"
       /\ fs[DstKey].data = fs0[SrcInfo0.path].data

(***************************************************************************)
(* C11                                                                     *)
(***************************************************************************)
\* the directory a copy of the directory src to dst puts the children under
FolderRoot1 == IF opt1.contentOnly THEN Clean(dst) ELSE Join(dst, Base(src))

\* the entries the source directory held below itself when Copy was called
Children0 == {k \in DOMAIN fs0 : IsUnder(k, src) /\ k # src}

\* C11: for a directory source A and a destination B, when Copy returns nil,
\* with default options every child of A is under B/<base name of A> at its
\* relative path, and with ContentOnly every child of A is under B at its
\* relative path and B/<base name of A> was not created.
C11_Placement ==
    /\ pc = "done" /\ err = "nil" /\ optList \in {<<>>, <<ContentOnly>>}
    /\ src \in DOMAIN fs0 /\ fs0[src].kind = "dir"
    => /\ \A k \in Children0 :
            /\ ReplacePrefix(k, src, FolderRoot1) \in DOMAIN fs
            /\ fs[ReplacePrefix(k, src, FolderRoot1)].kind = fs0[k].kind
       /\ opt1.contentOnly /\ Join(dst, Base(src)) \notin DOMAIN fs0
            => Join(dst, Base(src)) \notin DOMAIN fs

(***************************************************************************)
(* C12                                                                     *)
(***************************************************************************)
\* C12: with WithHash, while one file is copied and when the copy has
\* returned, the bytes fed to the hash are exactly the bytes written to the
\* destination file, each chunk once and in the order of the writes.
C12_HashIsContent ==
    opt1.hash /\ ~inTree /\ pc \in {"read", "write"} => sum = fs[wrPath].data

(***************************************************************************)
(* C13                                                                     *)
(***************************************************************************)
\* the source Copy works on: resolved when FollowSymlink is set
Src1 == IF opt1.follow THEN resolvePath(fs0, priv, src).path ELSE src

\* the paths a source entry k may correspond to: under the destination as
\* given (a rename, a file copy to a file name, ContentOnly) or under
\* <destination>/<base name of the source>
Dests1(k) ==
    {ReplacePrefix(k, Src1, Clean(dst)), ReplacePrefix(k, Src1, Join(dst, Base(Src1)))}

\* the source root string occurs in k only as its prefix
PlainName(k) == ReplaceAll(k, Src1, Root) = ReplacePrefix(k, Src1, Root)

\* the files of the source that existed when Copy was called and do not
\* exist any more
Deleted1 ==
    {k \in DOMAIN fs0 : IsUnder(k, Src1) /\ fs0[k].kind = "file" /\ k \notin DOMAIN fs}

\* C13: with WithMove and a destination outside the source, when Copy has
\* returned, every source file it deleted has its full content at its
\* corresponding destination path.
C13_MovedOnlyCopied ==
    pc = "done" /\ opt1.move /\ ~IsUnder(Clean(dst), Src1) =>
        \A k \in Deleted1 :
            PlainName(k) =>
                \E p \in Dests1(k) :
                    p \in DOMAIN fs /\ fs[p].kind = "file" /\ fs[p].data = fs0[k].data

(***************************************************************************)
(* C14                                                                     *)
(***************************************************************************)
\* the files that existed when Copy was called and are neither in the source
\* nor the file a source link leads to
Existing0 ==
    {p \in DOMAIN fs0 : /\ fs0[p].kind = "file" /\ ~IsUnder(p, Src1)
                        /\ p # Stat(fs0, priv, src).path}

\* C14: when Force is not set, every file that existed outside the source
\* when Copy was called is still a file with the same content, at every
\* step of Copy and for every option combination.
C14_ExistingKept ==
    ~opt1.force =>
        \A p \in Existing0 :
            p \in DOMAIN fs /\ fs[p].kind = "file" /\ fs[p].data = fs0[p].data

(***************************************************************************)
(* C15                                                                     *)
(***************************************************************************)
\* C15: once the context is cancelled, a step of the tree walk creates no
\* destination entry of any kind.
C15_NoEntryAfterCancel ==
    [][ctxDone /\ pc = "walk" => DOMAIN fs' \subseteq DOMAIN fs]_vars

(***************************************************************************)
(* C16                                                                     *)
(***************************************************************************)
\* C16: when Copy has returned, every entry of the source that existed when
\* Copy was called still exists and is unchanged, whatever the destination
\* and the options, and whether Copy succeeded or failed.
C16_SourceKept ==
    pc = "done" /\ Res.err = "nil" =>
        \A k \in DOMAIN fs0 :
            IsUnder(k, Res.path) => k \in DOMAIN fs /\ fs[k] = fs0[k]

(***************************************************************************)
(* C17                                                                     *)
(***************************************************************************)
\* C17: every path the walk of a directory copy visits existed when Copy was
\* called: the walk function is never called on an entry that the copy
\* itself created.
C17_VisitsOnlySource ==
    pc = "walk" /\ todo # <<>> => Head(todo) \in DOMAIN fs0

(***************************************************************************)
(* C18                                                                     *)
(***************************************************************************)
\* what a filesystem holds: the paths with their kind, content and target
Content(f) ==
    [k \in DOMAIN f |-> [kind |-> f[k].kind, data |-> f[k].data, target |-> f[k].target]]

\* Copy's result on the initial filesystem when os.Rename does not fail
\* across devices
Renamed0 == Copy1Head(fs0, priv, umask, FALSE, src, dst, opt1, <<>>)

\* rename succeeds on the initial filesystem when os.Rename does not fail
\* across devices
RenameWorks0 == rename(fs0, priv, umask, FALSE, Src1, dst, opt1.hash, <<>>).err = "nil"

\* C18: with WithMove, a source that is not a symbolic link and a destination
\* that does not exist, when the rename failed and the fallback copy returned
\* nil, the filesystem holds what it holds after a successful rename of the
\* same source to the same destination: the same paths with the same
\* content, and no source.
C18_SameAsRename ==
    /\ pc = "done" /\ err = "nil" /\ opt1.move /\ xdev
    /\ Stat(fs0, priv, dst).err = "ENOENT"
    /\ Lstat(fs0, priv, src).err = "nil" /\ fs0[Lstat(fs0, priv, src).path].kind # "link"
    /\ \A k \in DOMAIN fs0 : IsUnder(k, Src1) => PlainName(k)
    /\ RenameWorks0 /\ Renamed0.err = "nil"
    => Content(fs) = Content(Renamed0.fs)

====
